---------------------------- MODULE Spec2Model ----------------------------
(***************************************************************************)
(* Model of src/app/processor.py: validate_input_message followed by       *)
(* compute_fundamental_signal, as one request-scoped pipeline.             *)
(*                                                                         *)
(* Python values are tagged records [t |-> tag, v |-> payload]:            *)
(*   "float"  a finite double, v = its decimal value in units of 10^-5     *)
(*   "nan"    float('nan')              "inf"  float('+-inf'), v = sign    *)
(*   "int"    a Python int, v = its value                                  *)
(*   "str"    a string, v = the sequence of its characters                 *)
(*   "none"   None                                                         *)
(* A dict is a function from the set of its keys to values, and the heap   *)
(* maps object references to dicts, so that "the same record" and "a new   *)
(* record" are different things in the model as they are in Python.        *)
(*                                                                         *)
(* A double is named by its decimal value on the 10^-5 grid.  The binary   *)
(* value of a double equals its decimal name only when the name is a       *)
(* dyadic rational; the sign of the difference between the double computed *)
(* at line 54 and the decimal sum is the local `delta`, which the model    *)
(* chooses among the signs that binary arithmetic can produce.             *)
(***************************************************************************)
EXTENDS Integers, Sequences, FiniteSets, TLC

VARIABLES
    pc,        \* position of the pipeline: idle, received, validated, scored, failed
    heap,      \* object reference -> dict
    message,   \* reference of the raw message passed to validate_input_message
    ret,       \* reference returned by the last call that returned, 0 when none
    err,       \* the exception that ended the pipeline, NoErr when none
    locals,    \* locals of compute_fundamental_signal at its return
    log        \* records emitted on the module's logger for this message

vars == <<pc, heap, message, ret, err, locals, log>>

---------------------------------------------------------------------------
(* Bounds and program constants *)

\* int-typed eps values are drawn from 0..MaxInt
MaxInt == 3

\* round(score, 4)
NDIGITS == 4

\* score > 1.5, in units of 10^-5
Threshold == 150000

\* defaults of message.get, in units of 10^-5
DefaultEpsUnits == 200000
DefaultGrowthUnits == 5000
DefaultDebtUnits == 40000

\* one unit of the grid is 10^-(NDIGITS+1)
Scale == 10 ^ (NDIGITS + 1)

\* units per multiple of 10^-NDIGITS
Quantum == Scale \div (10 ^ NDIGITS)

\* a decimal n/Scale is a dyadic rational iff 5^(NDIGITS+1) divides n
DyadicStep == 5 ^ (NDIGITS + 1)

---------------------------------------------------------------------------
(* Python values *)

Float(u) == [t |-> "float", v |-> u]
PyInt(n) == [t |-> "int", v |-> n]
Str(s) == [t |-> "str", v |-> s]
None == [t |-> "none", v |-> 0]
NaN == [t |-> "nan", v |-> 0]
Inf(sgn) == [t |-> "inf", v |-> sgn]

BUY == <<"B", "U", "Y">>
HOLD == <<"H", "O", "L", "D">>
UNKNOWN == <<"U", "N", "K", "N", "O", "W", "N">>

---------------------------------------------------------------------------
(* dict operations *)

\* message.get(k) or d: a present None falls back to the default
GetOrDefault(m, k, d) == IF k \in DOMAIN m /\ m[k].t # "none" THEN m[k] ELSE d

\* message.get(k, d)
Get(m, k, d) == IF k \in DOMAIN m THEN m[k] ELSE d

\* {**b, **a}: the keys of the first dict win
MergeInputWins(a, b) ==
    [k \in (DOMAIN a) \cup (DOMAIN b) |-> IF k \in DOMAIN a THEN a[k] ELSE b[k]]

\* {**a, **b}
Merge(a, b) ==
    [k \in (DOMAIN a) \cup (DOMAIN b) |-> IF k \in DOMAIN b THEN b[k] ELSE a[k]]

---------------------------------------------------------------------------
(* float(x) *)

IsDigit(c) == c \in {"0", "1", "2", "3", "4", "5", "6", "7", "8", "9"}

DigitVal(c) ==
    CASE c = "0" -> 0 [] c = "1" -> 1 [] c = "2" -> 2 [] c = "3" -> 3
      [] c = "4" -> 4 [] c = "5" -> 5 [] c = "6" -> 6 [] c = "7" -> 7
      [] c = "8" -> 8 [] c = "9" -> 9

RECURSIVE DigitsVal(_)
DigitsVal(ds) ==
    IF ds = <<>> THEN 0
    ELSE DigitsVal(SubSeq(ds, 1, Len(ds) - 1)) * 10 + DigitVal(ds[Len(ds)])

AllDigits(ds) == \A i \in 1..Len(ds) : IsDigit(ds[i])

Lower(c) ==
    CASE c = "N" -> "n" [] c = "A" -> "a" [] c = "I" -> "i" [] c = "F" -> "f"
      [] OTHER -> c

RECURSIVE StripLeft(_)
StripLeft(s) ==
    IF s # <<>> /\ s[1] = " " THEN StripLeft(Tail(s)) ELSE s

RECURSIVE StripRight(_)
StripRight(s) ==
    IF s # <<>> /\ s[Len(s)] = " " THEN StripRight(SubSeq(s, 1, Len(s) - 1)) ELSE s

RECURSIVE PadRight(_, _)
PadRight(ds, n) == IF Len(ds) >= n THEN SubSeq(ds, 1, n) ELSE PadRight(Append(ds, "0"), n)

\* the result of a conversion: a float, or the exception it raises
Converted(x) == [ok |-> TRUE, val |-> x, exc |-> "", msg |-> ""]
Raises(type, text) == [ok |-> FALSE, val |-> None, exc |-> type, msg |-> text]

\* the unsigned decimal literal  digits [ "." digits ]  |  "." digits
ParseDecimal(body, sgn) ==
    LET dots == {i \in 1..Len(body) : body[i] = "."}
        dot == IF dots = {} THEN Len(body) + 1 ELSE CHOOSE i \in dots : TRUE
        ip == SubSeq(body, 1, dot - 1)
        fp == SubSeq(body, dot + 1, Len(body))
    IN  IF /\ Cardinality(dots) <= 1
           /\ AllDigits(ip) /\ AllDigits(fp)
           /\ Len(ip) + Len(fp) > 0
        THEN Converted(Float(sgn * (DigitsVal(ip) * Scale
                                    + DigitsVal(PadRight(fp, NDIGITS + 1)))))
        ELSE Raises("ValueError", "could not convert string to float")

\* float(s) for a string s
ParseFloat(s) ==
    LET stripped == StripRight(StripLeft(s))
        signed == stripped # <<>> /\ stripped[1] \in {"+", "-"}
        sgn == IF signed /\ stripped[1] = "-" THEN -1 ELSE 1
        body == IF signed THEN Tail(stripped) ELSE stripped
        word == [i \in 1..Len(body) |-> Lower(body[i])]
    IN  IF word = <<"n", "a", "n">> THEN Converted(NaN)
        ELSE IF word = <<"i", "n", "f">> THEN Converted(Inf(sgn))
        ELSE ParseDecimal(body, sgn)

\* float(x)
ToFloat(x) ==
    CASE x.t \in {"float", "nan", "inf"} -> Converted(x)
      [] x.t = "int" -> Converted(Float(x.v * Scale))
      [] x.t = "str" -> ParseFloat(x.v)
      [] OTHER -> Raises("TypeError", "float() argument must be a string or a real number")

---------------------------------------------------------------------------
(* float arithmetic, comparison and rounding *)

\* a + b
FAdd(a, b) ==
    IF a.t = "nan" \/ b.t = "nan" THEN NaN
    ELSE IF a.t = "inf" /\ b.t = "inf" THEN (IF a.v = b.v THEN a ELSE NaN)
    ELSE IF a.t = "inf" THEN a
    ELSE IF b.t = "inf" THEN b
    ELSE Float(a.v + b.v)

\* a - b
FSub(a, b) ==
    IF a.t = "nan" \/ b.t = "nan" THEN NaN
    ELSE IF a.t = "inf" /\ b.t = "inf" THEN (IF a.v # b.v THEN a ELSE NaN)
    ELSE IF a.t = "inf" THEN a
    ELSE IF b.t = "inf" THEN Inf(-b.v)
    ELSE Float(a.v - b.v)

\* eps + revenue_growth + debt_to_equity
ScoreOfAllAdded(eps, growth, debt) == FAdd(FAdd(eps, growth), debt)

\* eps + revenue_growth - debt_to_equity
ScoreOf(eps, growth, debt) == FSub(FAdd(eps, growth), debt)

\* the double is exactly the decimal that names it
IsExact(x) == x.t # "float" \/ x.v % DyadicStep = 0

\* signs that (double computed at line 54) - (decimal sum) can take: binary
\* arithmetic on exact operands of this magnitude is exact; a double is
\* never equal to a decimal that is not dyadic
ErrSigns(eps, growth, debt) ==
    LET s == ScoreOf(eps, growth, debt)
    IN  IF s.t # "float" THEN {0}
        ELSE IF IsExact(eps) /\ IsExact(growth) /\ IsExact(debt) THEN {0}
        ELSE IF ~IsExact(s) THEN {-1, 1}
        ELSE {-1, 0, 1}

\* score > 1.5 on the double: NaN compares false with everything
GreaterThan(s, delta, th) ==
    CASE s.t = "nan" -> FALSE
      [] s.t = "inf" -> s.v = 1
      [] OTHER -> s.v > th \/ (s.v = th /\ delta = 1)

\* "BUY" if score >= 1.5 else "HOLD"
SignalNonStrict(s, delta) ==
    IF GreaterThan(s, delta, Threshold) \/ (s.t = "float" /\ s.v = Threshold /\ delta = 0)
    THEN Str(BUY) ELSE Str(HOLD)

\* "BUY" if score > 1.5 else "HOLD"
Signal(s, delta) == IF GreaterThan(s, delta, Threshold) THEN Str(BUY) ELSE Str(HOLD)

\* round half up: a tie goes to the larger multiple
RoundHalfUp(s, delta) ==
    IF s.t # "float" THEN s
    ELSE LET q == s.v \div Quantum
             r == s.v % Quantum
             half == Quantum \div 2
             up == r > half \/ (r = half /\ delta >= 0)
         IN  Float((IF up THEN q + 1 ELSE q) * Quantum)

\* round(score): no digits, ties of the exact value to even
RoundNoDigits(s, delta) ==
    IF s.t # "float" THEN s
    ELSE LET q == s.v \div Scale
             r == s.v % Scale
             half == Scale \div 2
             up == \/ r > half
                   \/ r = half /\ delta = 1
                   \/ r = half /\ delta = 0 /\ q % 2 = 1
         IN  Float((IF up THEN q + 1 ELSE q) * Scale)

\* round(score, 4): correctly rounded, ties of the double's exact value to even;
\* NaN and the infinities are returned as they are
Round(s, delta) ==
    IF s.t # "float" THEN s
    ELSE LET q == s.v \div Quantum
             r == s.v % Quantum
             half == Quantum \div 2
             up == \/ r > half
                   \/ r = half /\ delta = 1
                   \/ r = half /\ delta = 0 /\ q % 2 = 1
         IN  Float((IF up THEN q + 1 ELSE q) * Quantum)

---------------------------------------------------------------------------
(* The raw records the pipeline is run on *)

\* marks a key the record does not have
Absent == [t |-> "absent", v |-> 0]

SymbolValues == {Absent, Str(<<"A", "C", "M", "E">>)}

\* 0.0, 0.03125 and 0.09375 (ties of round), 1.23456, 1.50001, 1.85, 3.0,
\* ints, a numeric and a non-numeric string, None, nan, inf
EpsValues ==
    {Absent, Float(0), Float(3125), Float(9375), Float(123456), Float(150001),
     Float(185000), Float(300000), Str(<<"1", ".", "5">>), Str(<<"a", "b", "c">>),
     None, NaN, Inf(1)}
      \cup {PyInt(n) : n \in 0..MaxInt}

\* 0.0, 0.00005, 0.1, None, -inf
GrowthValues == {Absent, Float(0), Float(5), Float(10000), None, Inf(-1)}

\* 0.0, 0.2, -1.5, a string that float() strips and parses, a string it rejects, inf
DebtValues ==
    {Absent, Float(0), Float(20000), Float(-150000), Str(<<" ", "-", "1", ".", "5">>),
     Str(<<"1", ".", "2", ".", "3">>), Inf(1)}

\* an unrelated key
SectorValues == {Absent, Str(<<"t", "e", "c", "h">>)}

\* keys named like the produced ones, already in the raw record
StaleScoreValues == {Absent, Float(990000)}
StaleSignalValues == {Absent, Str(<<"S", "E", "L", "L">>)}

\* the dict that has the keys of t that are not Absent
AsDict(t) == [k \in {x \in DOMAIN t : t[x] # Absent} |-> t[k]]

RawRecords ==
    {AsDict(t) : t \in [symbol : SymbolValues, eps : EpsValues,
                        revenue_growth : GrowthValues, debt_to_equity : DebtValues,
                        sector : SectorValues, fundamental_score : StaleScoreValues,
                        fundamental_signal : StaleSignalValues]}

---------------------------------------------------------------------------
(* State *)

NoErr == [type |-> "", msg |-> "", carried |-> {}, line |-> 0]

NoLocals ==
    [symbol |-> None, eps |-> None, revenue_growth |-> None, debt_to_equity |-> None,
     score |-> None, delta |-> 0, signal |-> None, result |-> <<>>]

\* one record on the logger: level, format string, and its %s arguments
LogRecord(level, text, syms, dicts) ==
    [level |-> level, text |-> text, syms |-> syms, dicts |-> dicts]

Init ==
    /\ pc = "idle"
    /\ heap = <<>>
    /\ message = 0
    /\ ret = 0
    /\ err = NoErr
    /\ locals = NoLocals
    /\ log = <<>>

\* the caller hands one raw record to validate_input_message; calls share no
\* state, so one behaviour follows one record through the pipeline
Receive ==
    /\ pc = "idle"
    /\ \E m \in RawRecords : heap' = (1 :> m)
    /\ message' = 1
    /\ ret' = 0
    /\ err' = NoErr
    /\ locals' = NoLocals
    /\ log' = <<>>
    /\ pc' = "received"

---------------------------------------------------------------------------
(* validate_input_message *)

\* logger.debug at line 30
ValidateTrace == LogRecord("DEBUG", "Validating message schema...", {}, {})

\* logger.error at line 32: the record is formatted into the log line
ValidateErrorLog(ref) ==
    LogRecord("ERROR", "Invalid message schema: %s", {}, {heap[ref]})

\* ValueError("Invalid message format", message)
ValidateErrorWithRecord(ref) ==
    [type |-> "ValueError", msg |-> "Invalid message format", carried |-> {ref}, line |-> 33]

\* ValueError("Invalid message format")
ValidateError(ref) ==
    [type |-> "ValueError", msg |-> "Invalid message format", carried |-> {}, line |-> 33]

\* a bare return: the caller gets None
ValidateResultNone(ref) == 0

\* return message
ValidateResult(ref) == ref

\* the raise is missing: the rejection is logged and the message returned
ValidateRaiseMissing ==
    /\ log' = log \o <<ValidateTrace, ValidateErrorLog(message)>>
    /\ ret' = message
    /\ pc' = "validated"
    /\ UNCHANGED <<heap, message, err, locals>>

\* validate_message_schema(message) is false: log and raise
ValidateRaise ==
    /\ log' = log \o <<ValidateTrace, ValidateErrorLog(message)>>
    /\ err' = ValidateError(message)
    /\ ret' = 0
    /\ pc' = "failed"
    /\ UNCHANGED <<heap, message, locals>>

\* validate_message_schema(message) is true: return the message
ValidateReturn ==
    /\ log' = Append(log, ValidateTrace)
    /\ ret' = ValidateResult(message)
    /\ pc' = "validated"
    /\ UNCHANGED <<heap, message, err, locals>>

\* the schema predicate is an external collaborator: either answer is possible
Validate ==
    /\ pc = "received"
    /\ \E schemaOk \in BOOLEAN : IF schemaOk THEN ValidateReturn ELSE ValidateRaise

---------------------------------------------------------------------------
(* compute_fundamental_signal *)

\* the caller passes the record validate_input_message returned
CallScore == pc = "validated" /\ ret # 0

DefaultEps == Float(DefaultEpsUnits)
DefaultGrowth == Float(DefaultGrowthUnits)
DefaultDebt == Float(DefaultDebtUnits)

\* the exception float() raised at the given line
ScoreError(conv, line) ==
    [type |-> conv.exc, msg |-> conv.msg, carried |-> {}, line |-> line]

\* the dict literal of lines 57-60
Result(score, delta, signal) ==
    ("fundamental_score" :> Round(score, delta)) @@ ("fundamental_signal" :> signal)

\* message.update(result); return message
UpdateInPlace(h, arg, out) == [heap |-> [h EXCEPT ![arg] = out], ref |-> arg]

\* the dict display {**message, **result} builds a new dict object
Allocate(h, arg, out) ==
    LET fresh == CHOOSE r \in 1..(Cardinality(DOMAIN h) + 1) : r \notin DOMAIN h
    IN  [heap |-> h @@ (fresh :> out), ref |-> fresh]

\* float() raised at line 48, 49 or 50: nothing is logged and nothing returned
ScoreRaise(conv, line) ==
    /\ err' = ScoreError(conv, line)
    /\ ret' = 0
    /\ pc' = "failed"
    /\ UNCHANGED <<heap, message, locals, log>>

\* lines 52-63
ScoreReturn(m, symbol, eps, growth, debt, delta) ==
    LET score == ScoreOf(eps, growth, debt)
        signal == Signal(score, delta)
        result == Result(score, delta, signal)
        made == Allocate(heap, ret, Merge(m, result))
    IN  /\ locals' = [symbol |-> symbol, eps |-> eps, revenue_growth |-> growth,
                      debt_to_equity |-> debt, score |-> score, delta |-> delta,
                      signal |-> signal, result |-> result]
        /\ log' = log \o
              <<LogRecord("INFO", "Computing fundamental signal for %s", {symbol}, {}),
                LogRecord("DEBUG", "Fundamental result for %s: %s", {symbol}, {result})>>
        /\ heap' = made.heap
        /\ ret' = made.ref
        /\ pc' = "scored"
        /\ UNCHANGED <<message, err>>

Score ==
    /\ CallScore
    /\ LET m == heap[ret]
           symbol == Get(m, "symbol", Str(UNKNOWN))
           eps == ToFloat(Get(m, "eps", DefaultEps))
           growth == ToFloat(Get(m, "revenue_growth", DefaultGrowth))
           debt == ToFloat(Get(m, "debt_to_equity", DefaultDebt))
       IN  IF ~eps.ok THEN ScoreRaise(eps, 48)
           ELSE IF ~growth.ok THEN ScoreRaise(growth, 49)
           ELSE IF ~debt.ok THEN ScoreRaise(debt, 50)
           ELSE \E delta \in ErrSigns(eps.val, growth.val, debt.val) :
                    ScoreReturn(m, symbol, eps.val, growth.val, debt.val, delta)

---------------------------------------------------------------------------

Next == Receive \/ Validate \/ Score

Spec == Init /\ [][Next]_vars

---------------------------------------------------------------------------
(* Properties *)

\* the raw record, and the record the last call returned
Raw == heap[message]
Out == heap[ret]

Scored == pc = "scored"
ProducedKeys == {"fundamental_score", "fundamental_signal"}
NumericKeys == {"eps", "revenue_growth", "debt_to_equity"}

\* the record has key k with value x
Has(m, k, x) == k \in DOMAIN m /\ m[k] = x

\* the schema predicate returned false for this message (line 32 was reached)
SchemaRejected == \E i \in 1..Len(log) : log[i].level = "ERROR"

\* validate_input_message raised
ValidateFailed == pc = "failed" /\ err.line = 33

\* compute_fundamental_signal was called and has ended
ScoreEnded == pc = "scored" \/ (pc = "failed" /\ err.line # 33)

\* C1: a record the schema predicate rejects makes validate raise the
\* invalid-input error and return nothing; it is never scored and no
\* enriched record exists for it.
C1_ValidationGate ==
    SchemaRejected =>
        /\ pc = "failed"
        /\ err.type = "ValueError" /\ err.msg = "Invalid message format"
        /\ err.line = 33
        /\ ret = 0
        /\ DOMAIN heap = {message}
        /\ locals = NoLocals

C1_Witness ==
    /\ SchemaRejected /\ pc = "failed"
    /\ NumericKeys \subseteq DOMAIN Raw

\* C2: the returned record has exactly the keys of the input plus the two
\* produced keys; every other key keeps its value; the produced keys hold
\* the newly computed values even when the input had keys of those names.
C2_OutputKeys ==
    Scored =>
        /\ DOMAIN Out = (DOMAIN Raw) \cup ProducedKeys
        /\ \A k \in (DOMAIN Raw) \ ProducedKeys : Out[k] = Raw[k]
        /\ DOMAIN locals.result = ProducedKeys
        /\ \A k \in ProducedKeys : Out[k] = locals.result[k]
        /\ Out["fundamental_signal"] = locals.signal

C2_Witness ==
    /\ Scored
    /\ ProducedKeys \subseteq DOMAIN Raw
    /\ "sector" \in DOMAIN Raw /\ "symbol" \notin DOMAIN Raw
    /\ Out["fundamental_score"] # Raw["fundamental_score"]
    /\ Out["fundamental_signal"] # Raw["fundamental_signal"]

\* the double named by s with error sign d is greater than 1.5
Above15(s, d) ==
    \/ s.t = "inf" /\ s.v = 1
    \/ s.t = "float" /\ (s.v > 150000 \/ (s.v = 150000 /\ d = 1))

\* C3: the signal is "BUY" exactly when the computed score is greater than
\* 1.5 and "HOLD" otherwise, never anything else; eps=0, revenue_growth=0,
\* debt_to_equity=-1.5 gives a score of exactly 1.5 and "HOLD".
C3_StrictThreshold ==
    Scored =>
        /\ Out["fundamental_signal"] \in {Str(BUY), Str(HOLD)}
        /\ Out["fundamental_signal"] = Str(BUY) <=> Above15(locals.score, locals.delta)
        /\ (/\ Has(Raw, "eps", Float(0)) /\ Has(Raw, "revenue_growth", Float(0))
            /\ Has(Raw, "debt_to_equity", Float(-150000)))
             => /\ locals.score = Float(150000) /\ locals.delta = 0
                /\ Out["fundamental_signal"] = Str(HOLD)

C3_Witness ==
    /\ Scored
    /\ locals.score = Float(150000) /\ locals.delta = 0
    /\ Out["fundamental_signal"] = Str(HOLD)

\* the float a present value of the enumerated records coerces to
CoercedValue(x) ==
    CASE x.t \in {"float", "nan", "inf"} -> x
      [] x.t = "int" -> Float(x.v * 100000)
      [] x = Str(<<"1", ".", "5">>) -> Float(150000)
      [] x = Str(<<" ", "-", "1", ".", "5">>) -> Float(-150000)

\* the operand the score is computed from: the default when the key is absent
Operand(m, k, defaultUnits) ==
    IF k \in DOMAIN m THEN CoercedValue(m[k]) ELSE Float(defaultUnits)

\* C4: the score is eps + revenue_growth - debt_to_equity with unit
\* coefficients; each absent field independently takes its default (2.0,
\* 0.05, 0.4), each present field the record's value; no field gives 1.65
\* and "BUY"; 3.0, 0.1, 0.2 gives 2.9 and "BUY".
C4_ScoreFormula ==
    Scored =>
        LET e == Operand(Raw, "eps", 200000)
            g == Operand(Raw, "revenue_growth", 5000)
            d == Operand(Raw, "debt_to_equity", 40000)
        IN  /\ locals.eps = e /\ locals.revenue_growth = g /\ locals.debt_to_equity = d
            /\ (e.t = "float" /\ g.t = "float" /\ d.t = "float")
                 => locals.score = Float(e.v + g.v - d.v)
            /\ (NumericKeys \cap DOMAIN Raw = {})
                 => /\ Out["fundamental_score"] = Float(165000)
                    /\ Out["fundamental_signal"] = Str(BUY)
            /\ (/\ Has(Raw, "eps", Float(300000)) /\ Has(Raw, "revenue_growth", Float(10000))
                /\ Has(Raw, "debt_to_equity", Float(20000)))
                 => /\ Out["fundamental_score"] = Float(290000)
                    /\ Out["fundamental_signal"] = Str(BUY)

C4_Witness ==
    /\ Scored
    /\ "eps" \notin DOMAIN Raw /\ "debt_to_equity" \notin DOMAIN Raw
    /\ Has(Raw, "revenue_growth", Float(10000))
    /\ Out["fundamental_score"] = Float(170000)

\* a value float() rejects
Uncoercible(x) ==
    \/ x.t = "none"
    \/ x = Str(<<"a", "b", "c">>)
    \/ x = Str(<<"1", ".", "2", ".", "3">>)

\* C5: when eps, revenue_growth or debt_to_equity is present with a value
\* that cannot be coerced (None included), score raises and returns no
\* record; a default never stands in for a present value.
C5_NoFallback ==
    (ScoreEnded /\ \E k \in NumericKeys : k \in DOMAIN Raw /\ Uncoercible(Raw[k])) =>
        /\ pc = "failed"
        /\ err.type \in {"TypeError", "ValueError"}
        /\ err.line \in 48..50
        /\ ret = 0
        /\ DOMAIN heap = {message}
        /\ locals = NoLocals

C5_Witness ==
    /\ pc = "failed" /\ err.line = 49 /\ err.type = "TypeError"
    /\ Has(Raw, "revenue_growth", None)
    /\ "eps" \notin DOMAIN Raw

\* C6: for a record the schema predicate accepts, validate returns that same
\* record, and adds, removes and changes nothing.
C6_ValidateIdentity ==
    [][(pc = "received" /\ pc' = "validated") =>
          (ret' = message /\ message' = message /\ heap' = heap)]_vars

C6_Witness ==
    /\ pc = "validated" /\ ret = message
    /\ NumericKeys \subseteq DOMAIN heap[ret]

\* C7 as claimed: the error validate raises carries the rejected record.
C7_ErrorCarriesRecord == ValidateFailed => message \in err.carried

\* C7 as amended: the error validate raises is a ValueError with the fixed
\* message "Invalid message format" and carries nothing else; the rejected
\* record goes to the error-level log record only.
C7_ErrorIsFixedMessage ==
    ValidateFailed =>
        /\ err.type = "ValueError" /\ err.msg = "Invalid message format"
        /\ err.carried = {}
        /\ \E i \in 1..Len(log) : log[i].level = "ERROR" /\ log[i].dicts = {Raw}

C7_Witness == ValidateFailed /\ DOMAIN Raw # {}

\* e is s rounded to 4 places: a multiple of 0.0001 at most 0.00005 from the
\* double s, whose error sign is d; an exact tie goes to the even multiple
Rounded4(s, d, e) ==
    /\ s.t = "float" /\ e.t = "float"
    /\ e.v % 10 = 0
    /\ e.v - s.v \in -5..5
    /\ (e.v - s.v = 5) => d >= 0
    /\ (e.v - s.v = -5) => d <= 0
    /\ (s.v % 10 = 5 /\ d = 0) => (e.v \div 10) % 2 = 0

\* C8 as claimed: every emitted fundamental_score is the score rounded to 4
\* places, half to even.
C8_AlwaysRounded ==
    Scored => Rounded4(locals.score, locals.delta, Out["fundamental_score"])

\* C8 as amended: for a finite score the emitted fundamental_score is the
\* score rounded to 4 places, half to even (1.23456 gives 1.2346); a NaN or
\* infinite score is emitted as it is.
C8_RoundHalfEven ==
    Scored =>
        /\ IF locals.score.t = "float"
           THEN Rounded4(locals.score, locals.delta, Out["fundamental_score"])
           ELSE Out["fundamental_score"] = locals.score
        /\ (/\ Has(Raw, "eps", Float(123456)) /\ Has(Raw, "revenue_growth", Float(0))
            /\ Has(Raw, "debt_to_equity", Float(0)))
             => Out["fundamental_score"] = Float(123460)

C8_Witness ==
    /\ Scored
    /\ locals.score = Float(3125) /\ locals.delta = 0
    /\ Out["fundamental_score"] = Float(3120)

\* C9: score does not mutate its input, whether it returns or raises, and
\* the record it returns is a new object.
C9_InputNotMutated ==
    [][pc = "validated" =>
          /\ message' = message
          /\ DOMAIN heap \subseteq DOMAIN heap'
          /\ \A r \in DOMAIN heap : heap'[r] = heap[r]
          /\ (pc' = "scored") => (ret' \notin DOMAIN heap /\ ret' \in DOMAIN heap')
          /\ (pc' = "failed") => heap' = heap]_vars

C9_Witness ==
    /\ Scored /\ ret # message
    /\ Has(Raw, "fundamental_score", Float(990000))
    /\ Out["fundamental_score"] # Float(990000)

\* e <= 1.5 and e >= 1.5 on floats: false when e is NaN
AtMost15(e) == (e.t = "float" /\ e.v <= 150000) \/ (e.t = "inf" /\ e.v = -1)
AtLeast15(e) == (e.t = "float" /\ e.v >= 150000) \/ (e.t = "inf" /\ e.v = 1)

\* C10 as claimed: HOLD implies emitted score <= 1.5, BUY implies emitted
\* score >= 1.5.
C10_SignalAgreesWithScore ==
    Scored =>
        /\ Out["fundamental_signal"] = Str(HOLD) => AtMost15(Out["fundamental_score"])
        /\ Out["fundamental_signal"] = Str(BUY) => AtLeast15(Out["fundamental_score"])

\* C10 as amended: HOLD implies the emitted score is not greater than 1.5
\* (it is <= 1.5, or NaN); BUY implies the emitted score is >= 1.5, and an
\* unrounded 1.50001 is emitted as BUY with 1.5.
C10_SignalNeverContradictsScore ==
    Scored =>
        /\ Out["fundamental_signal"] = Str(HOLD)
             => (AtMost15(Out["fundamental_score"]) \/ Out["fundamental_score"] = NaN)
        /\ Out["fundamental_signal"] = Str(BUY) => AtLeast15(Out["fundamental_score"])

C10_Witness ==
    /\ Scored
    /\ locals.score = Float(150001)
    /\ Out["fundamental_signal"] = Str(BUY)
    /\ Out["fundamental_score"] = Float(150000)

=============================================================================
